---- MODULE Spec2Model ----
(***************************************************************************)
(* Model of the jlox-rs streaming lexer (crates/lexer) and of the token    *)
(* stream Lexer::tokens() builds from it.                                  *)
(*                                                                         *)
(* The source text is a sequence of bytes.  An ASCII byte is written as    *)
(* the one-character string of its character; a non-ASCII byte is written  *)
(* as its two hex digits ("C3", "A9").  A char is the sequence of the      *)
(* bytes of its UTF-8 encoding, so c.len_utf8() is Len(c).  All offsets    *)
(* are byte offsets, counted from 0 as in the source.                      *)
(***************************************************************************)
EXTENDS Integers, Sequences, FiniteSets, TLC

\* ---------------------------------------------------------------- bounds
MaxLen == 4
MaxCommentLen == 8
MaxExtraPulls == 1

\* ---------------------------------------------------------------- UTF-8
Lead2 == {"C3"}
Lead3 == {"E2"}
Lead4 == {"F0"}
ContBytes == {"A9", "82", "AC", "9F", "98", "80"}

\* Encoded width of the char whose first byte is b.
Utf8Width(b) ==
    IF b \in Lead2 THEN 2
    ELSE IF b \in Lead3 THEN 3
    ELSE IF b \in Lead4 THEN 4
    ELSE 1

\* str::is_char_boundary
is_char_boundary(s, i) ==
    \/ i = 0
    \/ i = Len(s)
    \/ (i < Len(s) /\ s[i + 1] \notin ContBytes)

NoChar == << >>

\* Mutant of chars_next: the text is read byte by byte.
chars_next_byte(r) ==
    IF r = << >> THEN NoChar ELSE <<r[1]>>

\* r.chars().next(): the first char of r, NoChar when r is empty.
chars_next(r) ==
    IF r = << >> THEN NoChar ELSE SubSeq(r, 1, Utf8Width(r[1]))

\* r.chars().nth(1).unwrap_or('\0')
chars_nth1_or_nul(r) ==
    IF r = << >> THEN <<"NUL">>
    ELSE LET rest == SubSeq(r, Utf8Width(r[1]) + 1, Len(r))
         IN  IF rest = << >> THEN <<"NUL">> ELSE chars_next(rest)

\* r.starts_with(ch) for an ASCII char ch given as its byte.
starts_with(r, b) == Len(r) >= 1 /\ r[1] = b

\* r.find(ch): byte index of the first occurrence, -1 for Option::None.
find(r, b) ==
    LET I == {i \in 1..Len(r) : r[i] = b}
    IN  IF I = {} THEN -1
        ELSE (CHOOSE i \in I : \A j \in I : i <= j) - 1

\* usize::max
max(a, b) == IF a >= b THEN a ELSE b

\* ---------------------------------------------------------------- chars
AsciiDigits == {"0", "1", "2", "3", "4", "5", "6", "7", "8", "9"}
AsciiLetters ==
    {"a", "b", "c", "d", "e", "f", "g", "h", "i", "j", "k", "l", "m",
     "n", "o", "p", "q", "r", "s", "t", "u", "v", "w", "x", "y", "z",
     "A", "B", "C", "D", "E", "F", "G", "H", "I", "J", "K", "L", "M",
     "N", "O", "P", "Q", "R", "S", "T", "U", "V", "W", "X", "Y", "Z"}
Punctuation == {"(", ")", "{", "}", ",", ".", "-", "+", ";", "*"}
Whitespace == {"\n", "\r", " ", "\t"}

\* char::is_ascii_digit and char::is_digit(10)
is_ascii_digit(c) == Len(c) = 1 /\ c[1] \in AsciiDigits

is_alphanumeric(c) ==
    Len(c) = 1 /\ (c[1] \in AsciiLetters \/ c[1] \in AsciiDigits \/ c[1] = "_")

\* ---------------------------------------------------------------- tokens
None == [tag |-> "None"]
Panic == [tag |-> "Panic"]

KEYWORDS ==
    << << <<"a","n","d">>, "And" >>,
       << <<"c","l","a","s","s">>, "Class" >>,
       << <<"e","l","s","e">>, "Else" >>,
       << <<"f","a","l","s","e">>, "False" >>,
       << <<"f","o","r">>, "For" >>,
       << <<"f","u","n">>, "Fun" >>,
       << <<"i","f">>, "If" >>,
       << <<"n","i","l">>, "Nil" >>,
       << <<"o","r">>, "Or" >>,
       << <<"p","r","i","n","t">>, "Print" >>,
       << <<"r","e","t","u","r","n">>, "Return" >>,
       << <<"s","u","p","e","r">>, "Super" >>,
       << <<"t","h","i","s">>, "This" >>,
       << <<"t","r","u","e">>, "True" >>,
       << <<"v","a","r">>, "Var" >>,
       << <<"w","h","i","l","e">>, "While" >> >>

\* Mutant of from_keyword: an entry matches when the lexeme starts with it.
from_keyword_by_prefix(lexeme) ==
    LET I == {i \in 1..Len(KEYWORDS) :
                 /\ Len(KEYWORDS[i][1]) <= Len(lexeme)
                 /\ SubSeq(lexeme, 1, Len(KEYWORDS[i][1])) = KEYWORDS[i][1]}
    IN  IF I = {} THEN "NoKeyword"
        ELSE KEYWORDS[CHOOSE i \in I : \A j \in I : i <= j][2]

\* TokenKind::from_keyword: the kind of the first table entry equal to the
\* lexeme, "NoKeyword" for Option::None.
from_keyword(lexeme) ==
    LET I == {i \in 1..Len(KEYWORDS) : KEYWORDS[i][1] = lexeme}
    IN  IF I = {} THEN "NoKeyword"
        ELSE KEYWORDS[CHOOSE i \in I : \A j \in I : i <= j][2]

\* Mutant of from_char: the arm for '*' is missing.
from_char_without_star(c) ==
    IF Len(c) # 1 THEN "PANIC"
    ELSE CASE c[1] = "(" -> "LeftParen"
           [] c[1] = ")" -> "RightParen"
           [] c[1] = "{" -> "LeftBrace"
           [] c[1] = "}" -> "RightBrace"
           [] c[1] = "," -> "Comma"
           [] c[1] = "." -> "Dot"
           [] c[1] = "-" -> "Minus"
           [] c[1] = "+" -> "Plus"
           [] c[1] = ";" -> "Semicolon"
           [] c[1] = "/" -> "Slash"
           [] c[1] = "!" -> "Bang"
           [] c[1] = "=" -> "Equal"
           [] c[1] = ">" -> "Greater"
           [] c[1] = "<" -> "Less"
           [] OTHER -> "PANIC"

\* impl From<char> for TokenKind; "PANIC" for the panicking arm.
from_char(c) ==
    IF Len(c) # 1 THEN "PANIC"
    ELSE CASE c[1] = "(" -> "LeftParen"
           [] c[1] = ")" -> "RightParen"
           [] c[1] = "{" -> "LeftBrace"
           [] c[1] = "}" -> "RightBrace"
           [] c[1] = "," -> "Comma"
           [] c[1] = "." -> "Dot"
           [] c[1] = "-" -> "Minus"
           [] c[1] = "+" -> "Plus"
           [] c[1] = ";" -> "Semicolon"
           [] c[1] = "/" -> "Slash"
           [] c[1] = "*" -> "Star"
           [] c[1] = "!" -> "Bang"
           [] c[1] = "=" -> "Equal"
           [] c[1] = ">" -> "Greater"
           [] c[1] = "<" -> "Less"
           [] OTHER -> "PANIC"

EofLexeme == <<"<", "e", "o", "f", ">">>

\* Mutant of eof: the span starts at the beginning of the input.
eof_from_zero(offset) ==
    [tag |-> "Ok", kind |-> "Eof", lexeme |-> <<"<", "e", "o", "f", ">">>,
     span |-> <<0, offset>>]

\* Mutant of eof: the lexeme is the (empty) source text of the span.
eof_empty_lexeme(offset) ==
    [tag |-> "Ok", kind |-> "Eof", lexeme |-> << >>,
     span |-> <<offset, offset>>]

\* Token::eof
eof(offset) ==
    [tag |-> "Ok", kind |-> "Eof", lexeme |-> EofLexeme,
     span |-> <<offset, offset>>]

\* ---------------------------------------------------------------- Lexer
\* Lexer::remaining
remaining(s, p) ==
    IF p <= Len(s) /\ is_char_boundary(s, p)
    THEN SubSeq(s, p + 1, Len(s))
    ELSE << >>

\* Mutant of wrap: the lexeme is sliced from the start of the span to the
\* end of the source, not to the end of the span.
wrap_open_ended(s, kind, start, end) ==
    [tag |-> "Ok", kind |-> kind, lexeme |-> SubSeq(s, start + 1, Len(s)),
     span |-> <<start, end>>]

\* Lexer::wrap, with TokenSpan::new's assertion and the slice's checks.
wrap(s, kind, start, end) ==
    IF \/ kind = "PANIC"
       \/ end < start
       \/ end > Len(s)
       \/ ~is_char_boundary(s, start)
       \/ ~is_char_boundary(s, end)
    THEN Panic
    ELSE [tag |-> "Ok", kind |-> kind, lexeme |-> SubSeq(s, start + 1, end),
          span |-> <<start, end>>]

\* Mutant of op_with_eq: the one-char kind is emitted without looking ahead.
op_with_eq_no_lookahead(s, p, op_eq, op) ==
    [res |-> wrap(s, op, p - 1, p), pos |-> p]

\* Lexer::op_with_eq; p is the cursor, just past the operator's first char.
op_with_eq(s, p, op_eq, op) ==
    IF starts_with(remaining(s, p), "=")
    THEN [res |-> wrap(s, op_eq, (p + 1) - 2, p + 1), pos |-> p + 1]
    ELSE [res |-> wrap(s, op, p - 1, p), pos |-> p]

\* The while loop of Lexer::slash over a block comment: the cursor and the
\* depth when the loop ends.
RECURSIVE block_comment_loop(_, _, _)
block_comment_loop(s, p, depth) ==
    LET c == chars_next(remaining(s, p))
        p1 == p + Len(c)
    IN  IF c = NoChar THEN [pos |-> p, depth |-> depth]
        ELSE IF c = <<"/">> /\ starts_with(remaining(s, p1), "*")
             THEN block_comment_loop(s, p1 + 1, depth + 1)
        ELSE IF c = <<"*">> /\ starts_with(remaining(s, p1), "/")
             THEN IF depth - 1 = 0
                  THEN [pos |-> p1 + 1, depth |-> 0]
                  ELSE block_comment_loop(s, p1 + 1, depth - 1)
        ELSE block_comment_loop(s, p1, depth)

\* Mutant of slash: the length of an unterminated comment's span is counted
\* from the cursor, past the '/', not from the '/'.
slash_span_from_cursor(s, p) ==
    LET start == p - 1 IN
    IF starts_with(remaining(s, p), "/")
    THEN LET i == find(remaining(s, p), "\n")
             p1 == IF i # -1 THEN p + i ELSE Len(s)
         IN  [flow |-> "Continue", res |-> None, pos |-> p1,
              skip |-> [kind |-> "line", span |-> <<start, p1>>]]
    ELSE IF starts_with(remaining(s, p), "*")
    THEN LET l == block_comment_loop(s, p, 1)
         IN  IF l.depth # 0
             THEN [flow |-> "Break",
                   res |-> [tag |-> "Err", kind |-> "UnterminatedBlockComment",
                            src |-> s, at |-> <<start, l.pos - p>>],
                   pos |-> l.pos, skip |-> None]
             ELSE [flow |-> "Continue", res |-> None, pos |-> l.pos,
                   skip |-> [kind |-> "block", span |-> <<start, l.pos>>]]
    ELSE [flow |-> "Break", res |-> wrap(s, "Slash", start, p), pos |-> p,
          skip |-> None]

\* Mutant of slash: a line comment also consumes the newline that ends it.
slash_eats_newline(s, p) ==
    LET start == p - 1 IN
    IF starts_with(remaining(s, p), "/")
    THEN LET i == find(remaining(s, p), "\n")
             p1 == IF i # -1 THEN p + i + 1 ELSE Len(s)
         IN  [flow |-> "Continue", res |-> None, pos |-> p1,
              skip |-> [kind |-> "line", span |-> <<start, p1>>]]
    ELSE IF starts_with(remaining(s, p), "*")
    THEN LET l == block_comment_loop(s, p, 1)
         IN  IF l.depth # 0
             THEN [flow |-> "Break",
                   res |-> [tag |-> "Err", kind |-> "UnterminatedBlockComment",
                            src |-> s, at |-> <<start, l.pos - start>>],
                   pos |-> l.pos, skip |-> None]
             ELSE [flow |-> "Continue", res |-> None, pos |-> l.pos,
                   skip |-> [kind |-> "block", span |-> <<start, l.pos>>]]
    ELSE [flow |-> "Break", res |-> wrap(s, "Slash", start, p), pos |-> p,
          skip |-> None]

\* Lexer::slash; p is the cursor, just past the '/'.  flow is "Continue" or
\* "Break"; skip is the region a Continue discarded.
slash(s, p) ==
    LET start == p - 1 IN
    IF starts_with(remaining(s, p), "/")
    THEN LET i == find(remaining(s, p), "\n")
             p1 == IF i # -1 THEN p + i ELSE Len(s)
         IN  [flow |-> "Continue", res |-> None, pos |-> p1,
              skip |-> [kind |-> "line", span |-> <<start, p1>>]]
    ELSE IF starts_with(remaining(s, p), "*")
    THEN LET l == block_comment_loop(s, p, 1)
         IN  IF l.depth # 0
             THEN [flow |-> "Break",
                   res |-> [tag |-> "Err", kind |-> "UnterminatedBlockComment",
                            src |-> s, at |-> <<start, l.pos - start>>],
                   pos |-> l.pos, skip |-> None]
             ELSE [flow |-> "Continue", res |-> None, pos |-> l.pos,
                   skip |-> [kind |-> "block", span |-> <<start, l.pos>>]]
    ELSE [flow |-> "Break", res |-> wrap(s, "Slash", start, p), pos |-> p,
          skip |-> None]

\* Mutant of string_loop: a string may not span lines, the loop gives up at
\* a newline.
RECURSIVE string_loop_stops_at_newline(_, _)
string_loop_stops_at_newline(s, p) ==
    LET c == chars_next(remaining(s, p))
        p1 == p + Len(c)
    IN  IF c = NoChar THEN [pos |-> p, closed |-> FALSE]
        ELSE IF c = <<"\n">> THEN [pos |-> p1, closed |-> FALSE]
        ELSE IF c = <<"\"">> THEN [pos |-> p1, closed |-> TRUE]
        ELSE string_loop_stops_at_newline(s, p1)

\* Mutant of string_loop: a backslash escapes the char after it.
RECURSIVE string_loop_with_escapes(_, _)
string_loop_with_escapes(s, p) ==
    LET c == chars_next(remaining(s, p))
        p1 == p + Len(c)
        c2 == chars_next(remaining(s, p1))
    IN  IF c = NoChar THEN [pos |-> p, closed |-> FALSE]
        ELSE IF c = <<"\\">> THEN string_loop_with_escapes(s, p1 + Len(c2))
        ELSE IF c = <<"\"">> THEN [pos |-> p1, closed |-> TRUE]
        ELSE string_loop_with_escapes(s, p1)

\* The while loop of Lexer::string_literal: the cursor when it ends and
\* whether it ended at a closing quote.
RECURSIVE string_loop(_, _)
string_loop(s, p) ==
    LET c == chars_next(remaining(s, p))
        p1 == p + Len(c)
    IN  IF c = NoChar THEN [pos |-> p, closed |-> FALSE]
        ELSE IF c = <<"\"">> THEN [pos |-> p1, closed |-> TRUE]
        ELSE string_loop(s, p1)

\* Mutant of string_literal: the length of an unterminated string's span is
\* counted from the cursor, past the opening quote.
string_literal_span_from_cursor(s, p) ==
    LET start == p - 1
        l == string_loop(s, p)
    IN  IF l.closed
        THEN [res |-> wrap(s, "String", start, l.pos), pos |-> l.pos]
        ELSE [res |-> [tag |-> "Err", kind |-> "UnterminatedString",
                       src |-> s, at |-> <<start, max(l.pos - p, 1)>>],
              pos |-> l.pos]

\* Lexer::string_literal; p is the cursor, just past the opening quote.
string_literal(s, p) ==
    LET start == p - 1
        l == string_loop(s, p)
    IN  IF l.closed
        THEN [res |-> wrap(s, "String", start, l.pos), pos |-> l.pos]
        ELSE [res |-> [tag |-> "Err", kind |-> "UnterminatedString",
                       src |-> s, at |-> <<start, max(l.pos - start, 1)>>],
              pos |-> l.pos]

\* The closure consume_digits of Lexer::number_literal: the cursor after it.
RECURSIVE consume_digits(_, _)
consume_digits(s, p) ==
    LET c == chars_next(remaining(s, p))
    IN  IF c # NoChar /\ is_ascii_digit(c)
        THEN consume_digits(s, p + Len(c))
        ELSE p

\* Mutant of number_literal: a '.' after the whole part is consumed without
\* looking at the char after it.
number_literal_eager_dot(s, p) ==
    LET start == p - 1
        p1 == consume_digits(s, p)
        p2 == IF starts_with(remaining(s, p1), ".")
              THEN consume_digits(s, p1 + 1)
              ELSE p1
    IN  [res |-> wrap(s, "Number", start, p2), pos |-> p2]

\* Lexer::number_literal; p is the cursor, just past the first digit.
number_literal(s, p) ==
    LET start == p - 1
        p1 == consume_digits(s, p)
        p2 == IF /\ starts_with(remaining(s, p1), ".")
                 /\ is_ascii_digit(chars_nth1_or_nul(remaining(s, p1)))
              THEN consume_digits(s, p1 + 1)
              ELSE p1
    IN  [res |-> wrap(s, "Number", start, p2), pos |-> p2]

\* Mutant of identifier_loop: only letters and '_' continue an identifier.
RECURSIVE identifier_loop_no_digits(_, _)
identifier_loop_no_digits(s, p) ==
    LET c == chars_next(remaining(s, p))
    IN  IF c # NoChar /\ is_alphanumeric(c) /\ ~is_ascii_digit(c)
        THEN identifier_loop_no_digits(s, p + Len(c))
        ELSE p

\* The while loop of Lexer::identifier: the cursor after it.
RECURSIVE identifier_loop(_, _)
identifier_loop(s, p) ==
    LET c == chars_next(remaining(s, p))
    IN  IF c # NoChar /\ is_alphanumeric(c)
        THEN identifier_loop(s, p + Len(c))
        ELSE p

\* Lexer::identifier; p is the cursor, just past the first char.
identifier(s, p, start) ==
    LET p1 == identifier_loop(s, p)
        ok == start <= p1 /\ p1 <= Len(s) /\ is_char_boundary(s, start)
                /\ is_char_boundary(s, p1)
        keyword == IF ok THEN from_keyword(SubSeq(s, start + 1, p1))
                   ELSE "PANIC"
    IN  IF keyword # "NoKeyword"
        THEN [res |-> wrap(s, keyword, start, p1), pos |-> p1]
        ELSE [res |-> wrap(s, "Identifier", start, p1), pos |-> p1]

\* Mutant of unexpected_char: the span is taken to be one byte wide.
unexpected_char_one_byte(s, c, p) ==
    [tag |-> "Err", kind |-> "UnexpectedChar", c |-> c, src |-> s,
     at |-> <<p - 1, 1>>]

\* Mutant of unexpected_char: the error carries the text not yet scanned.
unexpected_char_src_remaining(s, c, p) ==
    [tag |-> "Err", kind |-> "UnexpectedChar", c |-> c,
     src |-> SubSeq(s, p + 1, Len(s)), at |-> <<p - Len(c), Len(c)>>]

\* Mutant of unexpected_char: the offset is the cursor, past the char.
unexpected_char_at_cursor(s, c, p) ==
    [tag |-> "Err", kind |-> "UnexpectedChar", c |-> c, src |-> s,
     at |-> <<p, Len(c)>>]

\* The last arm of Lexer::next_token's match: the error for a char c that
\* starts no token; p is the cursor, just past c.
unexpected_char(s, c, p) ==
    [tag |-> "Err", kind |-> "UnexpectedChar", c |-> c, src |-> s,
     at |-> <<p - Len(c), Len(c)>>]

\* Lexer::next_token (and Iterator::next, which only calls it) with the
\* cursor at p.  res is the returned Option<Result<Token>>, pos the cursor
\* afterwards, start the local `start` of the last loop iteration, skips
\* the regions that the `continue` iterations discarded, in order.
RECURSIVE next_token(_, _)
next_token(s, p) ==
    IF p >= Len(s)
    THEN [res |-> None, pos |-> p, start |-> p, skips |-> << >>]
    ELSE
    LET c == chars_next(remaining(s, p))
        start == p
        p1 == p + Len(c)
        done(r) == [res |-> r.res, pos |-> r.pos, start |-> start,
                    skips |-> << >>]
        continue(p2, skip) ==
            LET r == next_token(s, p2)
            IN  [r EXCEPT !.skips = <<skip>> \o r.skips]
    IN  IF c = NoChar
        THEN [res |-> None, pos |-> p, start |-> p, skips |-> << >>]
        ELSE IF Len(c) = 1 /\ c[1] \in Punctuation
        THEN done([res |-> wrap(s, from_char(c), start, p1), pos |-> p1])
        ELSE IF c = <<"!">> THEN done(op_with_eq(s, p1, "BangEqual", "Bang"))
        ELSE IF c = <<"=">> THEN done(op_with_eq(s, p1, "EqualEqual", "Equal"))
        ELSE IF c = <<">">>
        THEN done(op_with_eq(s, p1, "GreaterEqual", "Greater"))
        ELSE IF c = <<"<">> THEN done(op_with_eq(s, p1, "LessEqual", "Less"))
        ELSE IF c = <<"/">>
        THEN LET r == slash(s, p1)
             IN  IF r.flow = "Continue" THEN continue(r.pos, r.skip)
                 ELSE done(r)
        ELSE IF c = <<"\"">> THEN done(string_literal(s, p1))
        ELSE IF is_ascii_digit(c) THEN done(number_literal(s, p1))
        ELSE IF is_alphanumeric(c) THEN done(identifier(s, p1, start))
        ELSE IF Len(c) = 1 /\ c[1] \in Whitespace
        THEN continue(p1, [kind |-> "ws", span |-> <<start, p1>>])
        ELSE done([res |-> unexpected_char(s, c, p1), pos |-> p1])

\* The items a Lexer over s with its cursor at p yields until it returns
\* None (Iterator::next called to exhaustion).
RECURSIVE Items(_, _)
Items(s, p) ==
    LET r == next_token(s, p)
    IN  IF r.res = None \/ r.res = Panic THEN << >>
        ELSE <<r.res>> \o Items(s, r.pos)

\* ---------------------------------------------------------------- inputs
\* The chars the bounded inputs are drawn from: three families of words of
\* at most MaxLen chars, and the words of at most MaxCommentLen chars over
\* the chars that open and close comments.
AlphabetA ==
    { <<"/">>, <<"*">>, <<"\"">>, <<"\n">>, <<"o">>, <<"C3", "A9">> }
AlphabetB ==
    { <<"!">>, <<"=">>, <<"<">>, <<">">>, <<"@">>, <<"\\">>, <<"\"">> }
AlphabetC ==
    { <<"o">>, <<"r">>, <<"_">>, <<"1">>, <<".">>, <<" ">>,
      <<"E2", "82", "AC">> }
CommentAlphabet == { <<"/">>, <<"*">>, <<"o">> }

RECURSIVE Flatten(_)
Flatten(w) == IF w = << >> THEN << >> ELSE Head(w) \o Flatten(Tail(w))

Words(A, n) == {Flatten(w) : w \in UNION {[1..k -> A] : k \in 0..n}}

BoundedInputs ==
    Words(AlphabetA, MaxLen) \cup Words(AlphabetB, MaxLen)
        \cup Words(AlphabetC, MaxLen)
        \cup Words(CommentAlphabet, MaxCommentLen)

InPunctuators ==
    <<"!","=","=","<","=",">","=","!","=","<",">","/",".">>
InNumTrailingDot ==
    <<"1","2","3",".">>
InNumLeadingDot ==
    <<".","4","5","6">>
InNumFraction ==
    <<"1","2","3",".","4","5","6">>
InUnterminatedString ==
    <<"\"","u","n","t","e","r","m","i","n","a","t","e","d"," ","s","t","r",
      "i","n","g">>
InUnterminatedBlock ==
    <<"/","*"," ","u","n","t","e","r","m","i","n","a","t","e","d"," ","b",
      "l","o","c","k"," ","c","o","m","m","e","n","t">>
InNestedBlock ==
    <<"/","*"," ","n","e","s","t","e","d"," ","/","*"," ","b","l","o","c",
      "k","1"," ","*","/"," ","/","*"," ","b","l","o","c","k"," ","2"," ",
      "/","*"," ","b","l","o","c","k"," ","2",".","1","*","/"," ","*","/",
      " ","c","o","m","m","e","n","t","*","/">>
InNestedTight ==
    <<"/","*","/","*","*","/","*","/">>
InEscapedQuote ==
    <<"\"","a","\\","\"","b","\"">>
InStringWithComments ==
    <<"\"","/","/"," ","/","*"," ","\n","\\","\""," ","1">>
InAndy ==
    <<"a","n","d","y">>
InWideChars ==
    <<"o","E2","82","AC"," ","F0","9F","98","80","+">>
InKeywords ==
    <<"a","n","d"," ","c","l","a","s","s"," ","e","l","s","e"," ","f","a",
      "l","s","e"," ","f","o","r"," ","f","u","n"," ","i","f"," ","n","i",
      "l"," ","o","r"," ","p","r","i","n","t"," ","r","e","t","u","r","n",
      " ","s","u","p","e","r"," ","t","h","i","s"," ","t","r","u","e"," ",
      "v","a","r"," ","w","h","i","l","e">>
InNearKeywords ==
    <<"A","n","d"," ","O","R"," ","o","r","_"," ","f","o"," ","n","i","l",
      "s">>
InTenPunctuation ==
    <<"(",")","{","}",",",".","-","+",";","*">>
InDigitsThenLetters ==
    <<"1","2","3","a","b","c">>
InLineComments ==
    <<"/"," ","/","/","\"","/","*","\n","/","o","/","/"," ","C3","A9">>
InCommentContent ==
    <<"/","*","\"","/","/","o","*","/","o">>

FixedInputs ==
    {InKeywords,
     InNearKeywords,
     InTenPunctuation,
     InDigitsThenLetters,
     InLineComments,
     InCommentContent,
     InPunctuators,
     InNumTrailingDot,
     InNumLeadingDot,
     InNumFraction,
     InUnterminatedString,
     InUnterminatedBlock,
     InNestedBlock,
     InNestedTight,
     InEscapedQuote,
     InStringWithComments,
     InAndy,
     InWideChars}

Inputs == BoundedInputs \cup FixedInputs

\* What Lox::run_file and Lox::run_prompt read: the content of a script
\* file, or a file that cannot be read; the bytes on standard input, in
\* lines, some of them no UTF-8 text: a byte that occurs in no UTF-8 text,
\* an overlong encoding, a continuation byte with no lead byte.
InPromptLines == <<"(", "\n", "@", "\n">>
InBadStdin == <<"o", "\n", "FF", "\n", "o">>
InOverlongStdin == <<"F0", "80", "80", "80", "\n">>
InStrayContStdin == <<"A9", "\n", "o">>
Texts == Words(AlphabetA, MaxLen) \cup {InPromptLines}
Unreadable == [ok |-> FALSE, text |-> << >>]
Files == [ok : {TRUE}, text : Texts] \cup {Unreadable}
Stdins == Texts \cup {InBadStdin, InOverlongStdin, InStrayContStdin}

\* ---------------------------------------------------------------- state
VARIABLES
    src,        \* Lexer::src
    pos,        \* Lexer::pos
    a_live,     \* Chain::a is Some: the lexer has not yet returned None
    b_item,     \* Chain::b, the Once, still holds the Eof token
    out,        \* the items the stream has yielded, in order
    skipped,    \* the regions the lexer discarded, in order
    last,       \* what the latest pull returned (None before the first)
    from,       \* the cursor when the latest pull began
    begin,      \* the local `start` of next_token when the latest pull ended
    nones,      \* number of pulls that returned None
    stdout,     \* the tokens Lox::run has printed, in order
    stderr,     \* the errors Lox::run has reported, in order
    ret,        \* what the called function of Lox has returned
    entry,      \* the function of Lox that was called
    pc,         \* where that call is: read, prompt, run or done
    stdin,      \* the bytes written to standard input and not yet read
    pending,    \* the bytes the environment has yet to write to it
    closed,     \* the environment has closed standard input
    file,       \* the script file run_file is given
    mark,       \* Len of stdout and of stderr when Lox::run was entered
    failed      \* the stream a write to which has failed (none so far)

vars == <<src, pos, a_live, b_item, out, skipped, last, from, begin, nones,
          stdout, stderr, ret, entry, pc, stdin, pending, closed, file,
          mark, failed>>

\* Lexer::new(input).tokens(): the stream before its first pull.
LexerNew(input) ==
    /\ src = input
    /\ pos = 0
    /\ a_live = TRUE
    /\ b_item = TRUE
    /\ out = << >>
    /\ skipped = << >>
    /\ last = None
    /\ from = 0
    /\ begin = 0
    /\ nones = 0

\* Lexer::new(input).tokens()
Init ==
    /\ src \in Inputs
    /\ pos = 0
    /\ a_live = TRUE
    /\ b_item = TRUE
    /\ out = << >>
    /\ skipped = << >>
    /\ last = None
    /\ from = 0
    /\ begin = 0
    /\ nones = 0
    /\ stdout = << >>
    /\ stderr = << >>
    /\ ret = "Running"
    /\ entry = "run"
    /\ pc = "run"
    /\ stdin = << >>
    /\ pending = << >>
    /\ closed = TRUE
    /\ file = Unreadable
    /\ mark = <<0, 0>>
    /\ failed = "none"

\* Chain::next while the lexer is live and yields an item.
ChainToken ==
    /\ a_live
    /\ LET r == next_token(src, pos)
       IN  /\ r.res # None
           /\ pos' = r.pos
           /\ out' = Append(out, r.res)
           /\ skipped' = skipped \o r.skips
           /\ last' = r.res
           /\ begin' = r.start
    /\ from' = pos
    /\ UNCHANGED <<src, a_live, b_item, nones>>

\* Chain::next when the lexer returns None: the lexer is dropped and the
\* Once yields the Eof token in the same call.
ChainEof ==
    /\ a_live
    /\ LET r == next_token(src, pos)
       IN  /\ r.res = None
           /\ pos' = r.pos
           /\ skipped' = skipped \o r.skips
           /\ begin' = r.start
    /\ a_live' = FALSE
    /\ b_item' = FALSE
    /\ out' = IF b_item THEN Append(out, eof(Len(src))) ELSE out
    /\ last' = IF b_item THEN eof(Len(src)) ELSE None
    /\ from' = pos
    /\ nones' = IF b_item THEN nones ELSE nones + 1
    /\ UNCHANGED src

\* Chain::next after the lexer was dropped: only the Once is asked.
ChainExhausted ==
    /\ ~a_live
    /\ nones < MaxExtraPulls
    /\ b_item' = FALSE
    /\ out' = IF b_item THEN Append(out, eof(Len(src))) ELSE out
    /\ last' = IF b_item THEN eof(Len(src)) ELSE None
    /\ nones' = IF b_item THEN nones ELSE nones + 1
    /\ from' = pos
    /\ UNCHANGED <<src, pos, a_live, skipped, begin>>

\* A caller pulling the stream by hand: the driver's state is untouched.
PullToken ==
    /\ ChainToken
    /\ UNCHANGED <<stdout, stderr, ret, entry, pc, stdin, pending, closed,
                   file, mark,
                   failed>>
PullEof ==
    /\ ChainEof
    /\ UNCHANGED <<stdout, stderr, ret, entry, pc, stdin, pending, closed,
                   file, mark,
                   failed>>
PullExhausted ==
    /\ ChainExhausted
    /\ UNCHANGED <<stdout, stderr, ret, entry, pc, stdin, pending, closed,
                   file, mark,
                   failed>>

Next == PullToken \/ PullEof \/ PullExhausted

Spec == Init /\ [][Next]_vars

\* --------------------------------------------------------------- driver
\* Error::from(lexer::Error), the value Lox::error reports.
into_Error(e) == [tag |-> "LexerError", source |-> e]

\* Error::from(std::io::Error), the value Lox::error reports when the
\* script file cannot be read.
IoError == [tag |-> "IoError"]

\* The prompt run_prompt writes to standard output before it reads a line.
Prompt == <<">", " ">>

\* The message the runtime writes to standard error when a thread panics.
PanicMessage == [tag |-> "PanicMessage"]

\* The value of a byte: that of its two hex digits, and a value below 128
\* for every ASCII byte.
ByteValue(b) ==
    CASE b = "80" -> 128 [] b = "82" -> 130 [] b = "98" -> 152
      [] b = "9F" -> 159 [] b = "A9" -> 169 [] b = "AC" -> 172
      [] b = "C3" -> 195 [] b = "E2" -> 226 [] b = "F0" -> 240
      [] b = "FF" -> 255 [] OTHER -> 0

\* UTF8_CHAR_WIDTH of core::str::validations: 0 for a byte that starts no
\* char.
utf8_char_width(v) ==
    IF v < 128 THEN 1
    ELSE IF 194 <= v /\ v <= 223 THEN 2
    ELSE IF 224 <= v /\ v <= 239 THEN 3
    ELSE IF 240 <= v /\ v <= 244 THEN 4
    ELSE 0

\* std::str::from_utf8(r).is_ok(), as Stdin::read_line checks the line it
\* has read: every lead byte is followed by its continuation bytes, the
\* second byte in the range that excludes overlong encodings, surrogates
\* and values above U+10FFFF.
RECURSIVE is_utf8(_)
is_utf8(r) ==
    IF r = << >> THEN TRUE
    ELSE LET first == ByteValue(r[1])
             w == utf8_char_width(first)
             cont(i) == 128 <= ByteValue(r[i]) /\ ByteValue(r[i]) <= 191
             second == ByteValue(r[2])
         IN  /\ w # 0
             /\ Len(r) >= w
             /\ (w = 2 => cont(2))
             /\ (w = 3 =>
                   /\ \/ first = 224 /\ 160 <= second /\ second <= 191
                      \/ 225 <= first /\ first <= 236 /\ cont(2)
                      \/ first = 237 /\ 128 <= second /\ second <= 159
                      \/ 238 <= first /\ first <= 239 /\ cont(2)
                   /\ cont(3))
             /\ (w = 4 =>
                   /\ \/ first = 240 /\ 144 <= second /\ second <= 191
                      \/ 241 <= first /\ first <= 243 /\ cont(2)
                      \/ first = 244 /\ 128 <= second /\ second <= 143
                   /\ cont(3)
                   /\ cont(4))
             /\ is_utf8(SubSeq(r, w + 1, Len(r)))

\* The bytes Stdin::read_line takes from r: up to and including the first
\* LF, or all of r when it holds none.
read_line(r) ==
    LET i == find(r, "\n")
    IN  IF i = -1 THEN r ELSE SubSeq(r, 1, i + 1)

\* Stdin::read_line returns: a whole line has been written to standard
\* input, or standard input was closed.  Until then the call blocks.
LineReady == find(stdin, "\n") # -1 \/ closed

\* Mutant of RunReportError: the error is propagated and ends the run.
RunReportError_propagates ==
    /\ ret = "Running"
    /\ pc = "run"
    /\ ChainToken
    /\ last'.tag = "Err"
    /\ ret' = "Err"
    /\ pc' = "done"
    /\ UNCHANGED <<stdout, stderr, entry, stdin, pending, closed, file, mark,
                   failed>>

\* An iteration of the for loop of Lox::run over an Ok item of the lexer.
RunPrintToken ==
    /\ ret = "Running"
    /\ pc = "run"
    /\ ChainToken
    /\ last'.tag = "Ok"
    /\ stdout' = Append(stdout, last')
    /\ UNCHANGED <<stderr, ret, entry, pc, stdin, pending, closed, file, mark,
                   failed>>

\* An iteration over an Err item: the error is reported and the loop goes on.
RunReportError ==
    /\ ret = "Running"
    /\ pc = "run"
    /\ ChainToken
    /\ last'.tag = "Err"
    /\ stderr' = Append(stderr, into_Error(last'))
    /\ UNCHANGED <<stdout, ret, entry, pc, stdin, pending, closed, file, mark,
                   failed>>

\* The iteration over the Eof token the chained Once yields.
RunPrintEof ==
    /\ ret = "Running"
    /\ pc = "run"
    /\ ChainEof
    /\ last'.tag = "Ok"
    /\ stdout' = Append(stdout, last')
    /\ UNCHANGED <<stderr, ret, entry, pc, stdin, pending, closed, file, mark,
                   failed>>

\* The stream returns None: the loop ends and Lox::run returns Ok(()).
\* run_prompt goes on to its next line; run_file returns what run returned.
RunReturn ==
    /\ ret = "Running"
    /\ pc = "run"
    /\ ChainExhausted
    /\ last' = None
    /\ IF entry = "run_prompt"
       THEN pc' = "prompt" /\ ret' = ret
       ELSE pc' = "done" /\ ret' = "Ok"
    /\ UNCHANGED <<stdout, stderr, entry, stdin, pending, closed, file, mark,
                   failed>>

\* println! over an Ok item of the lexer when the write to standard output
\* fails: it panics, and the run ends with the rest of the stream unread.
\* The runtime's message reaches standard error or not.
RunPrintTokenPanic ==
    /\ ret = "Running"
    /\ pc = "run"
    /\ ChainToken
    /\ last'.tag = "Ok"
    /\ failed' = "stdout"
    /\ stderr' \in {stderr, Append(stderr, PanicMessage)}
    /\ ret' = "Panic"
    /\ pc' = "done"
    /\ UNCHANGED <<stdout, entry, stdin, pending, closed, file, mark>>

\* println! over the Eof token when the write to standard output fails.
RunPrintEofPanic ==
    /\ ret = "Running"
    /\ pc = "run"
    /\ ChainEof
    /\ last'.tag = "Ok"
    /\ failed' = "stdout"
    /\ stderr' \in {stderr, Append(stderr, PanicMessage)}
    /\ ret' = "Panic"
    /\ pc' = "done"
    /\ UNCHANGED <<stdout, entry, stdin, pending, closed, file, mark>>

\* eprintln! in Lox::error over an Err item when the write to standard
\* error fails: it panics, and the run ends with the rest unread.
RunReportErrorPanic ==
    /\ ret = "Running"
    /\ pc = "run"
    /\ ChainToken
    /\ last'.tag = "Err"
    /\ failed' = "stderr"
    /\ stderr' \in {stderr, Append(stderr, PanicMessage)}
    /\ ret' = "Panic"
    /\ pc' = "done"
    /\ UNCHANGED <<stdout, entry, stdin, pending, closed, file, mark>>

\* Lox::run_file over a file that cannot be read when the write of the
\* report to standard error fails: eprintln! panics and run is not entered.
FileReadPanic ==
    /\ ret = "Running"
    /\ pc = "read"
    /\ ~file.ok
    /\ failed' = "stderr"
    /\ stderr' \in {stderr, Append(stderr, PanicMessage)}
    /\ ret' = "Panic"
    /\ pc' = "done"
    /\ UNCHANGED <<src, pos, a_live, b_item, out, skipped, last, from, begin,
                   nones, stdout, entry, stdin, pending, closed, file, mark>>

\* The head of the loop of Lox::run_prompt when write_all or flush fails:
\* the error is returned through `?`.
PromptWriteFails ==
    /\ ret = "Running"
    /\ pc = "prompt"
    /\ failed' = "stdout"
    /\ ret' = "Err"
    /\ pc' = "done"
    /\ UNCHANGED <<src, pos, a_live, b_item, out, skipped, last, from, begin,
                   nones, stdout, stderr, entry, stdin, pending, closed, file,
                   mark>>

\* Lox::run_file up to the first pull of run: the file is read; when that
\* fails the error is reported and the empty text is run.
FileRead ==
    /\ ret = "Running"
    /\ pc = "read"
    /\ src' = (IF file.ok THEN file.text ELSE << >>)
    /\ stderr' = (IF file.ok THEN stderr ELSE Append(stderr, IoError))
    /\ mark' = <<Len(stdout), Len(stderr')>>
    /\ pc' = "run"
    /\ UNCHANGED <<pos, a_live, b_item, out, skipped, last, from, begin,
                   nones, stdout, ret, entry, stdin, pending, closed, file,
                   failed>>

\* The head of the loop of Lox::run_prompt: the prompt is written and
\* flushed, and the call enters read_line.
PromptWrite ==
    /\ ret = "Running"
    /\ pc = "prompt"
    /\ stdout' = Append(stdout, Prompt)
    /\ pc' = "wait"
    /\ UNCHANGED <<src, pos, a_live, b_item, out, skipped, last, from, begin,
                   nones, stderr, ret, entry, stdin, pending, closed, file,
                   mark,
                   failed>>

\* read_line returns a line: it is taken from standard input and run is
\* entered with it.
PromptRun ==
    /\ ret = "Running"
    /\ pc = "wait"
    /\ LineReady
    /\ is_utf8(read_line(stdin))
    /\ read_line(stdin) # << >>
    /\ stdin' = SubSeq(stdin, Len(read_line(stdin)) + 1, Len(stdin))
    /\ src' = read_line(stdin)
    /\ pos' = 0
    /\ a_live' = TRUE
    /\ b_item' = TRUE
    /\ out' = << >>
    /\ skipped' = << >>
    /\ last' = None
    /\ from' = 0
    /\ begin' = 0
    /\ nones' = 0
    /\ mark' = <<Len(stdout), Len(stderr)>>
    /\ pc' = "run"
    /\ UNCHANGED <<stdout, stderr, ret, entry, pending, closed, file,
                   failed>>

\* read_line returns at the end of standard input: the buffer stays empty,
\* the loop breaks and run_prompt returns Ok(()).
PromptEnd ==
    /\ ret = "Running"
    /\ pc = "wait"
    /\ closed
    /\ stdin = << >>
    /\ ret' = "Ok"
    /\ pc' = "done"
    /\ UNCHANGED <<src, pos, a_live, b_item, out, skipped, last, from, begin,
                   nones, stdout, stderr, entry, stdin, pending, closed, file,
                   mark,
                   failed>>

\* read_line has taken a line that is no UTF-8 text: it returns an error
\* and unwrap panics.  The runtime's message reaches standard error or not.
PromptPanic ==
    /\ ret = "Running"
    /\ pc = "wait"
    /\ LineReady
    /\ ~is_utf8(read_line(stdin))
    /\ stdin' = SubSeq(stdin, Len(read_line(stdin)) + 1, Len(stdin))
    /\ stderr' \in {stderr, Append(stderr, PanicMessage)}
    /\ ret' = "Panic"
    /\ pc' = "done"
    /\ UNCHANGED <<src, pos, a_live, b_item, out, skipped, last, from, begin,
                   nones, stdout, entry, pending, closed, file, mark,
                   failed>>

\* The environment writes its next line to standard input.
EnvWrite ==
    /\ ret = "Running"
    /\ ~closed
    /\ pending # << >>
    /\ stdin' = stdin \o read_line(pending)
    /\ pending' = SubSeq(pending, Len(read_line(pending)) + 1, Len(pending))
    /\ UNCHANGED <<src, pos, a_live, b_item, out, skipped, last, from, begin,
                   nones, stdout, stderr, ret, entry, pc, closed, file, mark,
                   failed>>

\* The environment closes standard input after all it had to write.
EnvClose ==
    /\ ret = "Running"
    /\ ~closed
    /\ pending = << >>
    /\ closed' = TRUE
    /\ UNCHANGED <<src, pos, a_live, b_item, out, skipped, last, from, begin,
                   nones, stdout, stderr, ret, entry, pc, stdin, pending,
                   file, mark,
                   failed>>

DriverNext ==
    \/ RunPrintToken
    \/ RunReportError
    \/ RunPrintEof
    \/ RunReturn
    \/ FileRead
    \/ PromptWrite
    \/ RunPrintTokenPanic
    \/ RunPrintEofPanic
    \/ RunReportErrorPanic
    \/ FileReadPanic
    \/ PromptWriteFails
    \/ PromptRun
    \/ PromptEnd
    \/ PromptPanic
    \/ EnvWrite
    \/ EnvClose

\* A call of Lox::run(source), of Lox::run_file or of Lox::run_prompt.
DriverInit ==
    \/ Init
    \/ /\ LexerNew(<< >>)
       /\ stdout = << >> /\ stderr = << >> /\ ret = "Running"
       /\ mark = <<0, 0>>
       /\ failed = "none"
       /\ stdin = << >>
       /\ \/ entry = "run_file" /\ pc = "read"
             /\ file \in Files /\ pending = << >> /\ closed = TRUE
          \/ entry = "run_prompt" /\ pc = "prompt"
             /\ file = Unreadable /\ pending \in Stdins /\ closed = FALSE

\* Lox::run, Lox::run_file or Lox::run_prompt from the call to the return.
DriverSpec == DriverInit /\ [][DriverNext]_vars

\* ---------------------------------------------------------------- views
IsToken(it) == it.tag = "Ok"
IsErr(it) == it.tag = "Err"
IsEof(it) == it.tag = "Ok" /\ it.kind = "Eof"
IsErrOf(it, k) == it.tag = "Err" /\ it.kind = k

\* First byte an item covers and first byte after it.
ItemStart(it) == IF IsToken(it) THEN it.span[1] ELSE it.at[1]
ItemEnd(it) == IF IsToken(it) THEN it.span[2] ELSE it.at[1] + it.at[2]

\* s[a..b], the bytes from offset a (inclusive) to offset b (exclusive).
Slice(s, a, b) == SubSeq(s, a + 1, b)

EofCount == Cardinality({i \in 1..Len(out) : IsEof(out[i])})
Exhausted == ~a_live

\* ---------------------------------------------------------------- claims

\* C1: pulling the stream to exhaustion yields exactly one Eof token; it is
\* an Ok item, it is the last item (every later pull yields nothing), and its
\* span is (len(s), len(s)).  No Eof is yielded before the lexer is exhausted.
C1_ExactlyOneEofLast ==
    /\ (a_live => EofCount = 0)
    /\ (Exhausted =>
          /\ EofCount = 1
          /\ out[Len(out)] =
                [tag |-> "Ok", kind |-> "Eof", lexeme |-> EofLexeme,
                 span |-> <<Len(src), Len(src)>>]
          /\ \A i \in 1..(Len(out) - 1) : out[i].tag \in {"Ok", "Err"})
    /\ (nones > 0 => Exhausted /\ last = None)
    /\ (nones = 0 /\ Exhausted => last = out[Len(out)])

\* A scan with two errors was pulled past its end: the Eof came third and
\* the later pulls returned nothing.
C1_Witness ==
    /\ nones = MaxExtraPulls
    /\ Len(out) = 3
    /\ IsErr(out[1]) /\ IsErr(out[2])
    /\ IsEof(out[3])

\* C2: for every non-Eof token t yielded while scanning s, the bytes of s
\* from t.span.start (inclusive) to t.span.end (exclusive) are t.lexeme.
C2_RoundTrip ==
    \A i \in 1..Len(out) :
        IsToken(out[i]) /\ ~IsEof(out[i]) =>
            /\ 0 <= out[i].span[1]
            /\ out[i].span[1] <= out[i].span[2]
            /\ out[i].span[2] <= Len(src)
            /\ Slice(src, out[i].span[1], out[i].span[2]) = out[i].lexeme

\* A String token that does not start the input and holds a two-byte char.
C2_Witness ==
    \E i \in 1..Len(out) :
        /\ IsToken(out[i]) /\ out[i].kind = "String"
        /\ out[i].span[1] > 0
        /\ out[i].lexeme = <<"\"", "C3", "A9", "\"">>

\* C3, as claimed: every token the scan produces, the terminal Eof included,
\* has source[span] = lexeme.
C3_TokenInvariantWithEof ==
    \A i \in 1..Len(out) :
        IsToken(out[i]) =>
            Slice(src, out[i].span[1], out[i].span[2]) = out[i].lexeme

\* C3, amended: every token but the terminal Eof has source[span] = lexeme;
\* the Eof token has the fixed lexeme "<eof>" over the empty span at
\* len(source), so its lexeme is not the source text of its span.
C3_TokenInvariantButEof ==
    \A i \in 1..Len(out) :
        IsToken(out[i]) =>
            IF out[i].kind = "Eof"
            THEN /\ out[i].lexeme = <<"<", "e", "o", "f", ">">>
                 /\ out[i].span = <<Len(src), Len(src)>>
                 /\ Slice(src, out[i].span[1], out[i].span[2]) = << >>
                 /\ Slice(src, out[i].span[1], out[i].span[2]) # out[i].lexeme
            ELSE Slice(src, out[i].span[1], out[i].span[2]) = out[i].lexeme

\* The Eof token was yielded after an identifier token.
C3_Witness ==
    /\ Len(out) = 2
    /\ IsToken(out[1]) /\ out[1].kind = "Identifier"
    /\ IsEof(out[2])

\* The nesting rule as the specification words it: with the cursor at p
\* inside a block comment of the given depth, reading left to right, a
\* further "/*" raises the depth, a "*/" lowers it, and the comment ends
\* right after the "*/" that brings the depth to 0.  The result is the
\* offset right after that "*/", or -1 when the input ends first.
RECURSIVE NestedCommentEnd(_, _, _)
NestedCommentEnd(s, p, depth) ==
    IF p >= Len(s) THEN -1
    ELSE IF p + 1 < Len(s) /\ s[p + 1] = "/" /\ s[p + 2] = "*"
         THEN NestedCommentEnd(s, p + 2, depth + 1)
    ELSE IF p + 1 < Len(s) /\ s[p + 1] = "*" /\ s[p + 2] = "/"
         THEN IF depth = 1 THEN p + 2
              ELSE NestedCommentEnd(s, p + 2, depth - 1)
    ELSE NestedCommentEnd(s, p + 1, depth)

\* Offsets at which the lexer began a token or a discarded region.
Starts ==
    {ItemStart(out[i]) : i \in {j \in 1..Len(out) : ~IsEof(out[j])}}
        \cup {skipped[k].span[1] : k \in 1..Len(skipped)}

\* C4: a block comment opened by "/*" at q ends right after the first "*/"
\* that brings the nesting depth, counted over the chars after the opening
\* two, back to 0; nothing between is yielded as a token or an error, and
\* scanning resumes right after it.  The "*" of the opening "/*" is never
\* the first char of a closing "*/".
C4_BlockCommentNesting ==
    /\ \A k \in 1..Len(skipped) :
          skipped[k].kind = "block" =>
            LET q == skipped[k].span[1]
                e == skipped[k].span[2]
            IN  /\ Slice(src, q, q + 2) = <<"/", "*">>
                /\ NestedCommentEnd(src, q + 2, 1) = e
                /\ \A i \in 1..Len(out) :
                      ~(ItemStart(out[i]) < e /\ ItemEnd(out[i]) > q)
                /\ (e = Len(src) \/ e \in Starts)
    /\ \A i \in 1..Len(out) :
          IsErrOf(out[i], "UnterminatedBlockComment") =>
            NestedCommentEnd(src, out[i].at[1] + 2, 1) = -1

\* C5: if the input ends while the depth of a block comment opened at q is
\* still above 0, the pull yields Err(UnterminatedBlockComment) with span
\* (q, len(s) - q), and no token is yielded for the text after the opening.
C5_UnterminatedBlockComment ==
    /\ \A k \in 1..Len(skipped) :
          skipped[k].kind = "block" =>
            NestedCommentEnd(src, skipped[k].span[1] + 2, 1) # -1
    /\ \A i \in 1..Len(out) :
          IsErrOf(out[i], "UnterminatedBlockComment") =>
            /\ Slice(src, out[i].at[1], out[i].at[1] + 2) = <<"/", "*">>
            /\ out[i].at = <<out[i].at[1], Len(src) - out[i].at[1]>>
            /\ \A j \in (i + 1)..Len(out) : IsEof(out[j])

IsTerminalErr(it) ==
    IsErrOf(it, "UnterminatedString") \/ IsErrOf(it, "UnterminatedBlockComment")

\* C6: when a pull yields Err(UnterminatedString) or
\* Err(UnterminatedBlockComment) the cursor is len(s) when the pull returns,
\* the next pull yields Ok(Eof) spanning (len(s), len(s)), and nothing is
\* yielded between the error and the Eof.
C6_TerminalErrors ==
    \A i \in 1..Len(out) :
        IsTerminalErr(out[i]) =>
            /\ pos = Len(src)
            /\ (i = Len(out) =>
                  /\ a_live /\ b_item
                  /\ last = out[i]
                  /\ next_token(src, pos).res = None)
            /\ (i < Len(out) =>
                  /\ i + 1 = Len(out)
                  /\ out[i + 1] =
                        [tag |-> "Ok", kind |-> "Eof", lexeme |-> EofLexeme,
                         span |-> <<Len(src), Len(src)>>])

\* An unterminated block comment that does not start the input was
\* reported after a token, and the Eof followed it.
C6_Witness ==
    /\ Len(out) = 3
    /\ IsToken(out[1])
    /\ IsErrOf(out[2], "UnterminatedBlockComment")
    /\ out[2].at[1] > 0
    /\ IsEof(out[3])

\* The char of s that starts at offset q.
CharAt(s, q) == SubSeq(s, q + 1, q + Utf8Width(s[q + 1]))

\* A char that starts no token and is no whitespace.
IsOtherChar(c) ==
    ~(/\ Len(c) = 1
      /\ c[1] \in Punctuation \cup {"!", "=", ">", "<", "/", "\"", "_"}
                    \cup AsciiDigits \cup AsciiLetters
                    \cup {" ", "\t", "\r", "\n"})

\* The item it of a scan of the text after offset d of s, as the same item
\* of a scan of s.
Shifted(it, d, s) ==
    IF IsToken(it)
    THEN [it EXCEPT !.span = <<it.span[1] + d, it.span[2] + d>>]
    ELSE [it EXCEPT !.at = <<it.at[1] + d, it.at[2]>>, !.src = s]

\* The lexer items (all but the Eof) yielded so far after the i-th item.
LexerItemsAfter(i) ==
    SubSeq(out, i + 1, IF Exhausted THEN Len(out) - 1 ELSE Len(out))

\* C7: a char c at token start that is no punctuation, operator, quote,
\* digit, letter, underscore or whitespace yields Err(UnexpectedChar) with c
\* and the span (offset of c, byte width of c); the cursor is then right
\* past c, and the following pulls yield what a scan of the rest yields.
C7_UnexpectedCharRecoverable ==
    /\ (a_live /\ last # None =>
          LET c == CharAt(src, begin)
          IN  /\ IsOtherChar(c) <=> IsErrOf(last, "UnexpectedChar")
              /\ (IsOtherChar(c) =>
                    /\ last.c = c
                    /\ last.at = <<begin, Len(c)>>
                    /\ last.src = src
                    /\ pos = begin + Len(c)))
    /\ \A i \in 1..Len(out) :
          IsErrOf(out[i], "UnexpectedChar") =>
            LET e == out[i].at[1] + out[i].at[2]
                rest == Items(Slice(src, e, Len(src)), 0)
                want == [j \in 1..Len(rest) |-> Shifted(rest[j], e, src)]
                got == LexerItemsAfter(i)
            IN  /\ Len(got) <= Len(want)
                /\ got = SubSeq(want, 1, Len(got))
                /\ (Exhausted => got = want)

\* A three-byte char after a token was reported and the scan went on to
\* yield a token and the Eof.
C7_Witness ==
    /\ Exhausted
    /\ Len(out) = 4
    /\ IsToken(out[1])
    /\ IsErrOf(out[2], "UnexpectedChar")
    /\ out[2].at = <<1, 3>>
    /\ IsToken(out[3]) /\ out[3].span[1] = 4

\* The kind and lexeme of every item yielded so far.
Summary ==
    [i \in 1..Len(out) |->
        IF IsToken(out[i]) THEN <<out[i].kind, out[i].lexeme>>
        ELSE <<out[i].kind>>]

Kinds == [i \in 1..Len(out) |-> out[i].kind]

\* The latest pull ended by yielding an item of the lexer.
Yielded == a_live /\ last # None

TwoCharKind(b) ==
    CASE b = "!" -> "BangEqual" [] b = "=" -> "EqualEqual"
      [] b = ">" -> "GreaterEqual" [] b = "<" -> "LessEqual"
OneCharKind(b) ==
    CASE b = "!" -> "Bang" [] b = "=" -> "Equal"
      [] b = ">" -> "Greater" [] b = "<" -> "Less"

\* C8: for '!', '=', '>', '<' at token start, a following '=' gives the
\* two-char kind over 2 bytes, anything else the one-char kind over 1 byte
\* with the next char left unconsumed; "!==<=>=!=<>/." scans as BangEqual,
\* Equal, LessEqual, GreaterEqual, BangEqual, Less, Greater, Slash, Dot, Eof.
C8_GreedyOperators ==
    /\ (Yielded /\ src[begin + 1] \in {"!", "=", ">", "<"} =>
          IF begin + 1 < Len(src) /\ src[begin + 2] = "="
          THEN /\ last = [tag |-> "Ok", kind |-> TwoCharKind(src[begin + 1]),
                          lexeme |-> <<src[begin + 1], "=">>,
                          span |-> <<begin, begin + 2>>]
               /\ pos = begin + 2
          ELSE /\ last = [tag |-> "Ok", kind |-> OneCharKind(src[begin + 1]),
                          lexeme |-> <<src[begin + 1]>>,
                          span |-> <<begin, begin + 1>>]
               /\ pos = begin + 1)
    /\ (Yielded /\ IsToken(last)
            /\ last.kind \in {"Bang", "Equal", "Greater", "Less", "BangEqual",
                              "EqualEqual", "GreaterEqual", "LessEqual"} =>
          src[begin + 1] \in {"!", "=", ">", "<"})
    /\ (Exhausted /\ src = InPunctuators =>
          Kinds = <<"BangEqual", "Equal", "LessEqual", "GreaterEqual",
                    "BangEqual", "Less", "Greater", "Slash", "Dot", "Eof">>)

\* The scan of "!==<=>=!=<>/." has ended.
C8_Witness ==
    /\ Exhausted
    /\ src = <<"!","=","=","<","=",">","=","!","=","<",">","/",".">>
    /\ Len(out) = 10

\* Offset right after the maximal run of ASCII digits of s that starts at
\* offset p.
DigitRunEnd(s, p) ==
    CHOOSE e \in p..Len(s) :
        /\ \A j \in (p + 1)..e : s[j] \in AsciiDigits
        /\ (e = Len(s) \/ s[e + 1] \notin AsciiDigits)

\* Offset right after the number that starts at offset q of s: the digit
\* run, and a '.' with the digit run after it when a digit follows the '.'.
NumberEnd(s, q) ==
    LET e1 == DigitRunEnd(s, q)
    IN  IF e1 + 1 < Len(s) /\ s[e1 + 1] = "." /\ s[e1 + 2] \in AsciiDigits
        THEN DigitRunEnd(s, e1 + 1)
        ELSE e1

\* C9: a Number token starts at an ASCII digit and covers the maximal digit
\* run plus at most one fractional part, whose '.' is consumed only when a
\* digit follows it; its lexeme never begins or ends with '.'; "123." scans
\* as Number("123"), Dot, Eof; ".456" as Dot, Number("456"), Eof; "123.456"
\* as Number("123.456"), Eof.
C9_NumberDotBoundary ==
    /\ (Yielded =>
          (src[begin + 1] \in AsciiDigits
              <=> (IsToken(last) /\ last.kind = "Number")))
    /\ (Yielded /\ src[begin + 1] \in AsciiDigits =>
          /\ last.span = <<begin, NumberEnd(src, begin)>>
          /\ last.lexeme = Slice(src, begin, NumberEnd(src, begin))
          /\ pos = NumberEnd(src, begin)
          /\ last.lexeme[1] # "."
          /\ last.lexeme[Len(last.lexeme)] # "."
          /\ Cardinality({j \in 1..Len(last.lexeme) :
                             last.lexeme[j] = "."}) <= 1)
    /\ (Exhausted /\ src = InNumTrailingDot =>
          Summary = << <<"Number", <<"1","2","3">> >>, <<"Dot", <<".">> >>,
                       <<"Eof", EofLexeme>> >>)
    /\ (Exhausted /\ src = InNumLeadingDot =>
          Summary = << <<"Dot", <<".">> >>, <<"Number", <<"4","5","6">> >>,
                       <<"Eof", EofLexeme>> >>)
    /\ (Exhausted /\ src = InNumFraction =>
          Summary = << <<"Number", <<"1","2","3",".","4","5","6">> >>,
                       <<"Eof", EofLexeme>> >>)

\* The scan of "123." has ended.
C9_Witness ==
    /\ Exhausted
    /\ src = <<"1","2","3",".">>
    /\ Len(out) = 3

\* Offsets right after the double quotes of s that follow the one at
\* offset q.
QuotesAfter(s, q) == {j \in (q + 2)..Len(s) : s[j] = "\""}

\* C10: a '"' at token start opens a literal that ends at the first
\* following '"', whatever lies between; the pull yields one String token
\* spanning both quotes.  With no closing '"' the pull yields
\* Err(UnterminatedString) spanning from the opening quote to the end of
\* the input, at least one byte, and no String token.
C10_StringLiterals ==
    /\ (Yielded /\ src[begin + 1] = "\"" =>
          LET J == QuotesAfter(src, begin)
              e == CHOOSE j \in J : \A k \in J : j <= k
          IN  IF J # {}
              THEN /\ last = [tag |-> "Ok", kind |-> "String",
                              lexeme |-> Slice(src, begin, e),
                              span |-> <<begin, e>>]
                   /\ pos = e
              ELSE /\ last = [tag |-> "Err", kind |-> "UnterminatedString",
                              src |-> src,
                              at |-> <<begin, Len(src) - begin>>]
                   /\ last.at[2] >= 1
                   /\ pos = Len(src))
    /\ (Yielded /\ ((IsToken(last) /\ last.kind = "String")
                      \/ IsErrOf(last, "UnterminatedString")) =>
          src[begin + 1] = "\"")

\* A String token holding a backslash before its closing quote, a newline
\* and a comment opener was yielded.
C10_Witness ==
    /\ Yielded
    /\ src = InStringWithComments
    /\ IsToken(last) /\ last.kind = "String"
    /\ last.span = <<0, 10>>

\* The keyword table as the specification lists it.
ReservedWords ==
    { << <<"a","n","d">>, "And" >>, << <<"c","l","a","s","s">>, "Class" >>,
      << <<"e","l","s","e">>, "Else" >>,
      << <<"f","a","l","s","e">>, "False" >>,
      << <<"f","o","r">>, "For" >>, << <<"f","u","n">>, "Fun" >>,
      << <<"i","f">>, "If" >>, << <<"n","i","l">>, "Nil" >>,
      << <<"o","r">>, "Or" >>, << <<"p","r","i","n","t">>, "Print" >>,
      << <<"r","e","t","u","r","n">>, "Return" >>,
      << <<"s","u","p","e","r">>, "Super" >>,
      << <<"t","h","i","s">>, "This" >>, << <<"t","r","u","e">>, "True" >>,
      << <<"v","a","r">>, "Var" >>, << <<"w","h","i","l","e">>, "While" >> }

KeywordKinds == {e[2] : e \in ReservedWords}

IsIdentStart(b) == b \in AsciiLetters \cup {"_"}
IsIdentChar(b) == b \in AsciiLetters \cup AsciiDigits \cup {"_"}

\* C11: an identifier-shaped lexeme gets a keyword kind iff the whole
\* lexeme equals, case-sensitively, one of the 16 reserved words, and then
\* that word's kind; every other one, such as "andy", is one Identifier.
C11_KeywordExactness ==
    /\ Cardinality(ReservedWords) = 16
    /\ (Yielded /\ IsIdentStart(src[begin + 1]) =>
          /\ IsToken(last)
          /\ last.span[1] = begin
          /\ \A e \in ReservedWords :
                (last.lexeme = e[1] => last.kind = e[2])
          /\ ((\A e \in ReservedWords : last.lexeme # e[1]) =>
                last.kind = "Identifier"))
    /\ (Yielded /\ IsToken(last) /\ last.kind \in KeywordKinds =>
          <<last.lexeme, last.kind>> \in ReservedWords)
    /\ (Exhausted /\ src = InAndy =>
          Summary = << <<"Identifier", <<"a","n","d","y">> >>,
                       <<"Eof", EofLexeme>> >>)
    /\ (Exhausted /\ src = InKeywords =>
          Kinds = <<"And", "Class", "Else", "False", "For", "Fun", "If", "Nil",
                    "Or", "Print", "Return", "Super", "This", "True", "Var",
                    "While", "Eof">>)
    /\ (Exhausted /\ src = InNearKeywords =>
          Kinds = <<"Identifier", "Identifier", "Identifier", "Identifier",
                    "Identifier", "Eof">>)

\* The scan of the text of the 16 reserved words has ended.
C11_Witness ==
    /\ Exhausted
    /\ src = InKeywords
    /\ Len(out) = 17

PunctuationKinds ==
    {"LeftParen", "RightParen", "LeftBrace", "RightBrace", "Comma", "Dot",
     "Minus", "Plus", "Semicolon", "Star"}

\* C12: no pull panics: TokenKind::from(char) is reached only with one of
\* ( ) { } , . - + ; *, every span has end >= start, and every slice of the
\* source lies within the buffer and on char boundaries.
C12_NoPanic ==
    /\ last # Panic
    /\ \A i \in 1..Len(out) : out[i] # Panic
    /\ (a_live => next_token(src, pos).res # Panic)
    /\ 0 <= pos /\ pos <= Len(src) /\ is_char_boundary(src, pos)
    /\ \A i \in 1..Len(out) :
          IsToken(out[i]) =>
            /\ 0 <= out[i].span[1]
            /\ out[i].span[1] <= out[i].span[2]
            /\ out[i].span[2] <= Len(src)
            /\ is_char_boundary(src, out[i].span[1])
            /\ is_char_boundary(src, out[i].span[2])
    /\ (Yielded /\ IsToken(last) /\ last.kind \in PunctuationKinds =>
          /\ src[begin + 1] \in {"(", ")", "{", "}", ",", ".", "-", "+", ";",
                                 "*"}
          /\ last.span = <<begin, begin + 1>>)

\* A string holding a two-byte char was yielded and then the same char,
\* outside the string, was reported.
C12_Witness ==
    /\ Len(out) >= 2
    /\ IsToken(out[1]) /\ out[1].lexeme = <<"\"", "C3", "A9", "\"">>
    /\ IsErrOf(out[2], "UnexpectedChar") /\ out[2].at = <<4, 2>>

\* C13: every Err item is UnexpectedChar, UnterminatedString or
\* UnterminatedBlockComment, never UnexpectedEof, and carries the entire
\* input as its source text.
C13_ClosedErrorSet ==
    \A i \in 1..Len(out) :
        out[i].tag # "Ok" =>
            /\ out[i].tag = "Err"
            /\ out[i].kind \in {"UnexpectedChar", "UnterminatedString",
                                "UnterminatedBlockComment"}
            /\ out[i].kind # "UnexpectedEof"
            /\ out[i].src = src

\* An UnexpectedChar and then an UnterminatedString were yielded after a
\* token.
C13_Witness ==
    /\ Len(out) >= 3
    /\ IsToken(out[1])
    /\ IsErrOf(out[2], "UnexpectedChar")
    /\ IsErrOf(out[3], "UnterminatedString")

\* C15, as claimed: the double quote followed by `unterminated string` is
\* 21 chars long and yields Err(UnterminatedString{span=(0,20)}) and then
\* Ok(Eof) at 21.
C15_EofAt21 ==
    Exhausted /\ src = InUnterminatedString =>
        /\ Len(src) = 21
        /\ out = << [tag |-> "Err", kind |-> "UnterminatedString",
                     src |-> src, at |-> <<0, 20>>],
                    [tag |-> "Ok", kind |-> "Eof", lexeme |-> EofLexeme,
                     span |-> <<21, 21>>] >>

\* C15, amended: that input is 20 chars long and yields exactly
\* Err(UnterminatedString{span=(0,20)}) and then Ok(Eof) at 20.
C15_EofAt20 ==
    /\ (src = InUnterminatedString => Len(src) = 20)
    /\ (Exhausted /\ src = InUnterminatedString =>
          out = << [tag |-> "Err", kind |-> "UnterminatedString",
                    src |-> src, at |-> <<0, 20>>],
                   [tag |-> "Ok", kind |-> "Eof", lexeme |-> EofLexeme,
                    span |-> <<20, 20>>] >>)
    /\ (Yielded /\ src = InUnterminatedString =>
          Len(out) = 1 /\ IsErrOf(last, "UnterminatedString")
            /\ last.at = <<0, 20>>)

\* The scan of the unterminated string has ended.
C15_Witness ==
    /\ Exhausted
    /\ src = InUnterminatedString
    /\ Len(out) = 2
    /\ IsErrOf(out[1], "UnterminatedString")

\* C16, as claimed: `/* unterminated block comment` yields
\* Err(UnterminatedBlockComment{span=(0,30)}) and then Ok(Eof) at 30.
C16_EofAt30 ==
    Exhausted /\ src = InUnterminatedBlock =>
        out = << [tag |-> "Err", kind |-> "UnterminatedBlockComment",
                  src |-> src, at |-> <<0, 30>>],
                 [tag |-> "Ok", kind |-> "Eof", lexeme |-> EofLexeme,
                  span |-> <<30, 30>>] >>

\* C16, amended: that input, 29 bytes long, yields exactly
\* Err(UnterminatedBlockComment{span=(0,29)}) and then Ok(Eof) at 29.
C16_EofAt29 ==
    /\ (src = InUnterminatedBlock => Len(src) = 29)
    /\ (Exhausted /\ src = InUnterminatedBlock =>
          out = << [tag |-> "Err", kind |-> "UnterminatedBlockComment",
                    src |-> src, at |-> <<0, 29>>],
                   [tag |-> "Ok", kind |-> "Eof", lexeme |-> EofLexeme,
                    span |-> <<29, 29>>] >>)
    /\ (Yielded /\ src = InUnterminatedBlock =>
          Len(out) = 1 /\ IsErrOf(last, "UnterminatedBlockComment")
            /\ last.at = <<0, 29>>)

\* The scan of the unterminated block comment has ended.
C16_Witness ==
    /\ Exhausted
    /\ src = InUnterminatedBlock
    /\ Len(out) = 2
    /\ IsErrOf(out[1], "UnterminatedBlockComment")

\* Offset of the first line feed of s at or after offset q, Len(s) when
\* there is none.
NextLineFeed(s, q) ==
    LET I == {j \in (q + 1)..Len(s) : s[j] = "\n"}
    IN  IF I = {} THEN Len(s)
        ELSE (CHOOSE j \in I : \A k \in I : j <= k) - 1

\* No item covers a byte of the region from q to e, and no discarded region
\* other than the k-th starts inside it.
Untouched(k, q, e) ==
    /\ \A i \in 1..Len(out) :
          ~IsEof(out[i]) => ~(ItemStart(out[i]) < e /\ ItemEnd(out[i]) > q)
    /\ \A j \in 1..Len(skipped) :
          j # k => ~(q <= skipped[j].span[1] /\ skipped[j].span[1] < e)

\* C17: "//" at token start discards everything up to, not including, the
\* next LF (or to the end of the input), yields no token, and nothing in it
\* opens anything; "/*" at token start begins a block comment; a '/'
\* followed by anything else or by the end of input is a one-byte Slash.
C17_SlashAndLineComments ==
    /\ \A k \in 1..Len(skipped) :
          LET q == skipped[k].span[1]
              e == skipped[k].span[2]
          IN  /\ (skipped[k].kind = "line" =>
                    /\ Slice(src, q, q + 2) = <<"/", "/">>
                    /\ e = NextLineFeed(src, q)
                    /\ Untouched(k, q, e))
              /\ (src[q + 1] = "/" =>
                    /\ q + 1 < Len(src)
                    /\ (src[q + 2] = "/" <=> skipped[k].kind = "line")
                    /\ (src[q + 2] = "*" <=> skipped[k].kind = "block")
                    /\ src[q + 2] \in {"/", "*"})
    /\ (Yielded /\ src[begin + 1] = "/" =>
          IF begin + 1 < Len(src) /\ src[begin + 2] = "*"
          THEN IsErrOf(last, "UnterminatedBlockComment")
          ELSE /\ (begin + 1 = Len(src) \/ src[begin + 2] # "/")
               /\ last = [tag |-> "Ok", kind |-> "Slash", lexeme |-> <<"/">>,
                          span |-> <<begin, begin + 1>>]
               /\ pos = begin + 1)
    /\ (Yielded /\ IsToken(last) /\ last.kind = "Slash" =>
          src[begin + 1] = "/")

\* Two line comments, one holding a quote and a comment opener, were
\* discarded between three tokens.
C17_Witness ==
    /\ Exhausted
    /\ src = InLineComments
    /\ Kinds = <<"Slash", "Slash", "Identifier", "Eof">>
    /\ Cardinality({k \in 1..Len(skipped) : skipped[k].kind = "line"}) = 2

\* C18: an identifier or keyword token starts at an ASCII letter or '_',
\* holds only ASCII letters, digits and '_', and is maximal; a non-ASCII
\* letter is never part of it and a digit never starts one: "123abc" is
\* Number("123"), Identifier("abc").
C18_IdentifierMaximalMunch ==
    /\ (Yielded =>
          (IsIdentStart(src[begin + 1])
              <=> (IsToken(last)
                     /\ last.kind \in KeywordKinds \cup {"Identifier"})))
    /\ (Yielded /\ IsIdentStart(src[begin + 1]) =>
          /\ last.span[1] = begin
          /\ last.lexeme = Slice(src, begin, last.span[2])
          /\ \A j \in 1..Len(last.lexeme) : IsIdentChar(last.lexeme[j])
          /\ (last.span[2] = Len(src) \/ ~IsIdentChar(src[last.span[2] + 1]))
          /\ pos = last.span[2])
    /\ (Exhausted /\ src = InDigitsThenLetters =>
          Summary = << <<"Number", <<"1","2","3">> >>,
                       <<"Identifier", <<"a","b","c">> >>,
                       <<"Eof", EofLexeme>> >>)

\* An identifier holding a digit ended right before a three-byte char.
C18_Witness ==
    /\ Yielded
    /\ IsToken(last) /\ last.kind = "Identifier"
    /\ last.lexeme = <<"o", "1", "_">>
    /\ last.span[2] < Len(src)
    /\ src[last.span[2] + 1] = "E2"

\* Offsets at which the lexer, at a token start, read the "/*" that opens a
\* block comment.
BlockOpeners ==
    {skipped[k].span[1] : k \in {j \in 1..Len(skipped) :
                                    skipped[j].kind = "block"}}
      \cup {out[i].at[1] : i \in {j \in 1..Len(out) :
                                    IsErrOf(out[j], "UnterminatedBlockComment")}}

\* The offset right after the block comment opened at q: right after the
\* "*/" that closes it, counting nesting over the text after the opening
\* two bytes, or the end of the input when nothing closes it.
CommentEnd(q) ==
    LET n == NestedCommentEnd(src, q + 2, 1)
    IN  IF n = -1 THEN Len(src) ELSE n

\* C19: nothing inside a string literal or a block comment is yielded as,
\* or as part of, a separate token or error: no item starts inside the span
\* of another item, and between the "/*" that opens a block comment and
\* the end of that comment nothing is yielded but the error for the comment
\* itself when it is unterminated, and nothing else is begun; a '"' inside
\* a block comment opens no string and a "//" inside it does not hide a
\* later "*/".
C19_NoGarbageFromContent ==
    /\ \A i \in 1..Len(out) : \A j \in 1..Len(out) :
          ~IsEof(out[i]) /\ ~IsEof(out[j]) /\ i # j =>
            ~(ItemStart(out[i]) <= ItemStart(out[j])
                /\ ItemStart(out[j]) < ItemEnd(out[i]))
    /\ \A q \in BlockOpeners :
          /\ \A i \in 1..Len(out) :
                ~IsEof(out[i]) /\ ItemStart(out[i]) < CommentEnd(q)
                               /\ ItemEnd(out[i]) > q =>
                  /\ IsErrOf(out[i], "UnterminatedBlockComment")
                  /\ out[i].at[1] = q
                  /\ NestedCommentEnd(src, q + 2, 1) = -1
          /\ \A k \in 1..Len(skipped) :
                ~(q < skipped[k].span[1] /\ skipped[k].span[1] < CommentEnd(q))
    /\ (Exhausted /\ src = InCommentContent =>
          /\ Summary = << <<"Identifier", <<"o">> >>, <<"Eof", EofLexeme>> >>
          /\ skipped = <<[kind |-> "block", span |-> <<0, 8>>]>>)

\* The Ok items and the Err items of a sequence of items, in order.
OkItems(items) == SelectSeq(items, IsToken)
ErrItems(items) == SelectSeq(items, IsErr)

\* A call of Lox::run is under way; the latest call of Lox::run has
\* returned and nothing was written since.
RunActive == pc = "run"
RunOver ==
    /\ nones = 1
    /\ pc = "prompt" \/ (pc = "done" /\ entry # "run_prompt")

\* What a call of Lox::run has done is exactly the stream of its source:
\* every Ok item printed, every Err item reported, in order, since the call
\* began; it returns only after the stream ended behind the Eof token.
RunFollowsStream ==
    /\ (RunActive \/ RunOver =>
          /\ SubSeq(stdout, mark[1] + 1, Len(stdout)) = OkItems(out)
          /\ SubSeq(stderr, mark[2] + 1, Len(stderr))
                = [i \in 1..Len(ErrItems(out)) |-> into_Error(ErrItems(out)[i])])
    /\ (RunOver =>
          /\ Exhausted
          /\ last = None
          /\ out = Items(src, 0) \o <<eof(Len(src))>>
          /\ stdout[Len(stdout)] = eof(Len(src)))

\* What the called function returns while every write succeeds: never an
\* error; Ok(()) from run and run_file once run is over, from run_prompt
\* once standard input is closed and read up; the only panic is that of
\* run_prompt over a line that is no text, outside every call of run.
ReturnsOk ==
    /\ ret \in {"Running", "Ok", "Panic"}
    /\ (ret = "Running" <=> pc # "done")
    /\ (ret = "Ok" =>
          IF entry = "run_prompt"
          THEN stdin = << >> /\ pending = << >> /\ closed
          ELSE RunOver)
    /\ (stderr # << >> /\ stderr[Len(stderr)] = PanicMessage => ret = "Panic")
    /\ (ret = "Panic" => entry = "run_prompt")
    /\ (pc = "wait" => stdout # << >> /\ stdout[Len(stdout)] = Prompt)
    /\ (entry = "run_file" /\ pc # "read" =>
          IF file.ok
          THEN src = file.text /\ mark = <<0, 0>>
          ELSE src = << >> /\ mark = <<0, 1>> /\ stderr[1] = IoError)

\* A call of Lox::run has ended on an item it had pulled, before the stream
\* returned None.
RunAborted == pc = "done" /\ last # None

\* What a failed write does: the call ends at once, run and run_file by the
\* panic of println! or eprintln! over the item just pulled or over the
\* report of the unreadable file, run_prompt by returning the error of its
\* prompt.
WriteFailureEndsCall ==
    /\ (failed # "none" =>
          /\ pc = "done"
          /\ ret \in {"Panic", "Err"}
          /\ (ret = "Err" <=>
                entry = "run_prompt" /\ failed = "stdout" /\ last = None))
    /\ (RunAborted =>
          /\ ret = "Panic"
          /\ failed = (IF IsToken(last) THEN "stdout" ELSE "stderr")
          /\ out # << >> /\ out[Len(out)] = last)

\* The guards of the iterations of Lox::run: the pull returns an Ok item or
\* an Err item of the lexer, the Eof token, or None.
RunCanStep ==
    IF a_live
    THEN LET r == next_token(src, pos).res
         IN  r.tag \in {"Ok", "Err"} \/ (r = None /\ b_item)
    ELSE nones < MaxExtraPulls

C21_CursorProgress ==
    /\ 0 <= pos /\ pos <= Len(src)
    /\ is_char_boundary(src, pos)
    /\ from <= pos
    /\ (Yielded => from < pos)
    /\ (pos = Len(src) =>
          /\ next_token(src, pos).res = None
          /\ next_token(src, pos).pos = pos)
    /\ (Exhausted => pos = Len(src))
    /\ Len(out) - EofCount <= Len(src)
    /\ Len(out) <= Len(src) + 1

\* A scan over two- or three-byte chars ended with the cursor at len(src),
\* and a further pull yielded nothing.
C21_Witness ==
    /\ Exhausted
    /\ nones = 1
    /\ pos = Len(src)
    /\ Len(out) >= 3
    /\ \E i \in 1..Len(src) : src[i] \in ContBytes
    /\ \E i \in 1..Len(out) : IsToken(out[i]) /\ ~IsEof(out[i])

\* C22: of two consecutive items the later starts at or after the byte
\* where the earlier ends (an error spans offset..offset+length); every
\* token but the Eof and every error covers at least one byte and ends at or
\* before len(src).
C22_SpansOrderedDisjoint ==
    /\ \A i \in 1..(Len(out) - 1) :
          ItemEnd(out[i]) <= ItemStart(out[i + 1])
    /\ \A i \in 1..Len(out) :
          ~IsEof(out[i]) =>
            /\ ItemStart(out[i]) < ItemEnd(out[i])
            /\ ItemEnd(out[i]) <= Len(src)

\* An error and a token were yielded back to back, and two items with
\* discarded text between them.
C22_Witness ==
    /\ Exhausted
    /\ \E i \in 1..(Len(out) - 1) :
          /\ IsErr(out[i])
          /\ ~IsEof(out[i + 1])
          /\ ItemEnd(out[i]) = ItemStart(out[i + 1])
    /\ \E i \in 1..(Len(out) - 1) :
          /\ ~IsEof(out[i + 1])
          /\ ItemEnd(out[i]) < ItemStart(out[i + 1])

\* The k-th discarded region is what the text says it is: one whitespace
\* char, a line comment from "//" up to the next LF or the end, or a block
\* comment from "/*" to the "*/" that closes it.
IsWhitespaceOrComment(k) ==
    LET q == skipped[k].span[1]
        e == skipped[k].span[2]
    IN  CASE skipped[k].kind = "ws" ->
               e = q + 1 /\ src[q + 1] \in {" ", "\t", "\r", "\n"}
          [] skipped[k].kind = "line" ->
               Slice(src, q, q + 2) = <<"/", "/">> /\ e = NextLineFeed(src, q)
          [] skipped[k].kind = "block" ->
               /\ Slice(src, q, q + 2) = <<"/", "*">>
               /\ NestedCommentEnd(src, q + 2, 1) = e

\* The byte at offset b lies in the span of a yielded token or error.
InItem(b) ==
    \E i \in 1..Len(out) :
        ~IsEof(out[i]) /\ ItemStart(out[i]) <= b /\ b < ItemEnd(out[i])

\* C23: every byte scanned so far that lies in no yielded token's or
\* error's span is a space, tab, CR or LF, or belongs to a line comment or
\* to a closed block comment; a whitespace char at the head of the input
\* only shifts the items that follow by its width.
C23_NothingDroppedSilently ==
    /\ \A b \in 0..(pos - 1) :
          ~InItem(b) =>
            \E k \in 1..Len(skipped) :
                /\ skipped[k].span[1] <= b
                /\ b < skipped[k].span[2]
                /\ IsWhitespaceOrComment(k)
    /\ (Exhausted /\ src # << >> /\ src[1] \in Whitespace =>
          LET rest == Items(Tail(src), 0)
          IN  LexerItemsAfter(0)
                = [j \in 1..Len(rest) |-> Shifted(rest[j], 1, src)])

====
